---- MODULE Spec2Model ----
(***************************************************************************)
(* Model of src/vortex-theme-utils.js: the colour converter vortexRgbToHex, *)
(* the resting border extractor vortexExtractFormFieldBorderColor and the   *)
(* background resolver vortexExtractFormContainerBackground, run against a  *)
(* document that is one ancestor chain (target, parent, ..., BODY, HTML).   *)
(***************************************************************************)
EXTENDS Integers, Sequences, FiniteSets, TLC

VARIABLES
    hexIn,      \* the string last handed to vortexRgbToHex
    hexOut,     \* what vortexRgbToHex returned for it (NoValue before a call)
    hexFed,     \* TRUE when hexIn is the result of the previous call
    doc,        \* the document: a sequence of elements, doc[i+1] the parent of doc[i]
    focus,      \* index of the element holding focus, 0 when none does
    blurAt,     \* the time focus was last lost (a transition back to rest starts then)
    lastFocus,  \* index of the element that lost focus at blurAt, 0 when none
    now,        \* the clock of the page
    calls       \* the extractor calls: calls[c] is the state and outcome of call c

vars == <<hexIn, hexOut, hexFed, doc, focus, blurAt, lastFocus, now, calls>>

NoValue == [kind |-> "none"]

(***************************************************************************)
(* Strings.  A string is a record; its characters are one-character TLA+    *)
(* strings.  A colour string "fn(r, g, b[, a])" keeps the function name and *)
(* the digit strings of its parts (a = <<>> when there is no fourth part);  *)
(* any other string keeps its characters.                                   *)
(***************************************************************************)
Color(fn, r, g, b, a) == [kind |-> "color", fn |-> fn, r |-> r, g |-> g, b |-> b, a |-> a]

Text(chars) == [kind |-> "text", chars |-> chars]

DecDigits == <<"0", "1", "2", "3", "4", "5", "6", "7", "8", "9">>

HexDigits == DecDigits \o <<"a", "b", "c", "d", "e", "f">>

DigitValue(ch) == CHOOSE d \in 0..9 : DecDigits[d + 1] = ch

IsDigit(ch) == \E d \in 0..9 : DecDigits[d + 1] = ch

\* The decimal numeral of n, as the rendering engine writes a channel.
RECURSIVE Numeral(_)
Numeral(n) == IF n < 10 THEN <<DecDigits[n + 1]>>
              ELSE Numeral(n \div 10) \o <<DecDigits[(n % 10) + 1]>>

Rgb(r, g, b) == Color("rgb", Numeral(r), Numeral(g), Numeral(b), <<>>)

Rgba(r, g, b, a) == Color("rgba", Numeral(r), Numeral(g), Numeral(b), a)

Transparent == Text(<<"t", "r", "a", "n", "s", "p", "a", "r", "e", "n", "t">>)

(***************************************************************************)
(* vortexRgbToHex                                                           *)
(***************************************************************************)
\* /rgba?\((\d+),\s*(\d+),\s*(\d+)(?:,\s*([\d.]+))?\)/ : rgb or rgba, three digit
\* runs, and an optional fourth part made of digits and dots.
RegexMatch(s) ==
    /\ s.kind = "color"
    /\ s.fn \in {"rgb", "rgba"}
    /\ \A p \in {s.r, s.g, s.b} : Len(p) > 0 /\ \A i \in 1..Len(p) : IsDigit(p[i])
    /\ \A i \in 1..Len(s.a) : IsDigit(s.a[i]) \/ s.a[i] = "."

RECURSIVE ParseInt(_)
ParseInt(p) == IF Len(p) = 0 THEN 0
               ELSE 10 * ParseInt(SubSeq(p, 1, Len(p) - 1)) + DigitValue(p[Len(p)])

\* Thousandths are the unit of a parsed real.
Thousand == 10 * 10 * 10

NaN == -1

\* The digits of p before its first dot, and the digits between the first dot and
\* the second (parseFloat stops reading at a second dot).
FirstDot(p) == IF \E i \in 1..Len(p) : p[i] = "."
               THEN CHOOSE i \in 1..Len(p) : p[i] = "." /\ \A j \in 1..(i - 1) : p[j] # "."
               ELSE Len(p) + 1

IntDigits(p) == SubSeq(p, 1, FirstDot(p) - 1)

FracDigits(p) == LET rest == SubSeq(p, FirstDot(p) + 1, Len(p))
                 IN  SubSeq(rest, 1, FirstDot(rest) - 1)

\* parseFloat, in thousandths (fraction digits beyond the third are dropped).
ParseFloat(p) ==
    LET f  == FracDigits(p)
        f3 == SubSeq(f \o <<"0", "0", "0">>, 1, 3)
    IN  IF Len(IntDigits(p)) = 0 /\ Len(f) = 0 THEN NaN
        ELSE Thousand * ParseInt(IntDigits(p)) + ParseInt(f3)

\* Math.round(a * 255) for a in thousandths: halves round up.
RoundTimes255(a) == (2 * 255 * a + Thousand) \div (2 * Thousand)

\* n.toString(16)
RECURSIVE ToString16(_)
ToString16(n) == IF n < 16 THEN <<HexDigits[n + 1]>>
                 ELSE ToString16(n \div 16) \o <<HexDigits[(n % 16) + 1]>>

\* s.padStart(2, '0')
PadStart2(s) == IF Len(s) >= 2 THEN s
                ELSE IF Len(s) = 1 THEN <<"0">> \o s ELSE <<"0", "0">>

toHex(n) == PadStart2(ToString16(n))

UpperOf(ch) == CASE ch = "a" -> "A" [] ch = "b" -> "B" [] ch = "c" -> "C"
                 [] ch = "d" -> "D" [] ch = "e" -> "E" [] ch = "f" -> "F"
                 [] OTHER -> ch

toUpperCase(s) == [i \in 1..Len(s) |-> UpperOf(s[i])]

\* AlphaHex with the alpha tested for truthiness (if (a && a !== 1)): alpha 0 is dropped.
AlphaHex_Truthy(s) ==
    LET a == IF Len(s.a) > 0 THEN ParseFloat(s.a) ELSE NaN
    IN  IF Len(s.a) > 0 /\ a # 0 /\ a # Thousand
        THEN (IF a = NaN THEN <<"N", "a", "N">> ELSE PadStart2(ToString16(RoundTimes255(a))))
        ELSE <<>>

\* The alpha digits appended to the six colour digits.
AlphaHex(s) ==
    LET a == IF Len(s.a) > 0 THEN ParseFloat(s.a) ELSE NaN
    IN  IF Len(s.a) > 0 /\ a # Thousand
        THEN (IF a = NaN THEN <<"N", "a", "N">> ELSE PadStart2(ToString16(RoundTimes255(a))))
        ELSE <<>>

vortexRgbToHex(s) ==
    IF ~RegexMatch(s) THEN s
    ELSE Text(toUpperCase(<<"#">> \o toHex(ParseInt(s.r)) \o toHex(ParseInt(s.g))
                          \o toHex(ParseInt(s.b)) \o AlphaHex(s)))

(***************************************************************************)
(* The document.  An element keeps its tag name, class attribute, role      *)
(* attribute and the computed styles the extractors read: background colour *)
(* (bg), border width (bw), and the border colour at rest (rest), while     *)
(* focus is at or below the element (foc) and part-way through the          *)
(* transition back to rest (mid), which lasts trans units of time.          *)
(***************************************************************************)
Element(tag, cls, role, bg, bw, rest, foc, mid, trans) ==
    [tag |-> tag, cls |-> cls, role |-> role, bg |-> bg, bw |-> bw,
     rest |-> rest, foc |-> foc, mid |-> mid, trans |-> trans]

\* element.parentElement: the next element of the chain, 0 (null) above the root.
parentElement(d, e) == IF e < Len(d) THEN e + 1 ELSE 0

\* A selector names a tag or a class.
Selector(by, name) == [by |-> by, name |-> name]

Matches(sel, el) == IF sel.by = "tag" THEN el.tag = sel.name ELSE el.cls = sel.name

\* document.querySelector: the first match in document order, the outermost of a
\* chain; 0 (null) when nothing matches.
querySelector(d, sel) ==
    IF \E e \in 1..Len(d) : Matches(sel, d[e])
    THEN CHOOSE e \in 1..Len(d) : Matches(sel, d[e])
                                   /\ \A x \in (e + 1)..Len(d) : ~Matches(sel, d[x])
    ELSE 0

\* document.body, and document.activeElement (the body when no element has focus).
bodyElement(d) == IF \E e \in 1..Len(d) : d[e].tag = "BODY"
                  THEN CHOOSE e \in 1..Len(d) : d[e].tag = "BODY" ELSE 0

activeElement(d, f) == IF f # 0 THEN f ELSE bodyElement(d)

\* The focus state: <<focus, blurAt, lastFocus>>.
\* blur that records a loss of focus whether or not the element holds focus.
blur_Always(e, st, t) == IF e # 0 THEN <<0, t, e>> ELSE st

\* element.blur(): focus is lost only when the element holds it.
blur(e, st, t) == IF e # 0 /\ st[1] = e THEN <<0, t, e>> ELSE st

\* element.click() on the body dispatches a click event; focus does not move.
click(e, st) == st

\* getComputedStyle(e).borderColor at time t in focus state st.
borderColor(d, e, st, t) ==
    IF st[1] # 0 /\ st[1] <= e THEN d[e].foc
    ELSE IF st[3] # 0 /\ st[3] <= e /\ d[e].foc # d[e].rest /\ t - st[2] < d[e].trans
         THEN (IF t = st[2] THEN d[e].foc ELSE d[e].mid)
         ELSE d[e].rest

\* borderElement.className || borderElement.tagName
descriptor(el) == IF el.cls # "" THEN el.cls ELSE el.tag

(***************************************************************************)
(* vortexExtractFormFieldBorderColor                                        *)
(***************************************************************************)
SettleDelay == 200

CallIds == {1, 2}

IdleCall == [pc |-> "idle", fn |-> "", sel |-> Selector("", ""), target |-> 0, due |-> 0,
             wasFocused |-> FALSE, snap |-> <<0, 0, 0>>, readAt |-> 0, readFocus |-> 0,
             used |-> 0, out |-> NoValue, alone |-> NoValue, err |-> ""]

\* The three defocus steps of lines 81-87 applied to focus state st at time t.
Defocus(d, input, st, t) ==
    LET s1 == IF activeElement(d, st[1]) # 0 THEN blur(activeElement(d, st[1]), st, t) ELSE st
        s2 == blur(input, s1, t)
    IN  click(bodyElement(d), s2)

\* borderElementOf without the wrapper rule: the target is always read.
borderElementOf_Self(d, input) == input

\* Lines 94-100: the element whose border is read; 0 when it is null.
borderElementOf(d, input) ==
    IF d[input].bw = "0px" \/ d[input].bw = "0" THEN parentElement(d, input) ELSE input

\* Lines 103-113: the result read from border element e at time t in focus state st.
borderResult(d, e, st, t) ==
    [kind |-> "ok",
     color |-> vortexRgbToHex(borderColor(d, e, st, t)),
     element |-> descriptor(d[e]),
     width |-> d[e].bw]

\* CallBorder with the active element defocused before the target is looked up.
CallBorder_DefocusFirst(c, sel) ==
    /\ calls[c].pc = "idle"
    /\ \A x \in CallIds : x < c => calls[x].pc # "idle"
    /\ LET input == querySelector(doc, sel)
           s1    == blur(activeElement(doc, focus), <<focus, blurAt, lastFocus>>, now)
           st    == Defocus(doc, input, <<focus, blurAt, lastFocus>>, now)
       IN  IF input = 0
           THEN /\ calls' = [calls EXCEPT ![c] =
                       [IdleCall EXCEPT !.pc = "failed", !.fn = "border", !.sel = sel,
                                        !.err = "Element not found"]]
                /\ focus' = s1[1]
                /\ blurAt' = s1[2]
                /\ lastFocus' = s1[3]
           ELSE /\ calls' = [calls EXCEPT ![c] =
                       [IdleCall EXCEPT !.pc = "waiting", !.fn = "border", !.sel = sel,
                                        !.target = input,
                                        !.due = now + SettleDelay,
                                        !.wasFocused = (focus = input), !.snap = st]]
                /\ focus' = st[1]
                /\ blurAt' = st[2]
                /\ lastFocus' = st[3]
    /\ UNCHANGED <<hexIn, hexOut, hexFed, doc, now>>

\* Lines 73-91: the call up to its await.  A null target throws before anything else.
CallBorder(c, sel) ==
    /\ calls[c].pc = "idle"
    /\ \A x \in CallIds : x < c => calls[x].pc # "idle"
    /\ LET input == querySelector(doc, sel)
           st    == Defocus(doc, input, <<focus, blurAt, lastFocus>>, now)
       IN  IF input = 0
           THEN /\ calls' = [calls EXCEPT ![c] =
                       [IdleCall EXCEPT !.pc = "failed", !.fn = "border", !.sel = sel,
                                        !.err = "Element not found"]]
                /\ UNCHANGED <<focus, blurAt, lastFocus>>
           ELSE /\ calls' = [calls EXCEPT ![c] =
                       [IdleCall EXCEPT !.pc = "waiting", !.fn = "border", !.sel = sel,
                                        !.target = input,
                                        !.due = now + SettleDelay,
                                        !.wasFocused = (focus = input), !.snap = st]]
                /\ focus' = st[1]
                /\ blurAt' = st[2]
                /\ lastFocus' = st[3]
    /\ UNCHANGED <<hexIn, hexOut, hexFed, doc, now>>

\* Lines 93-113: the timer has fired (never before it is due, and after every timer
\* due earlier) and the call reads the styles.  getComputedStyle(null) throws.
ResumeBorder(c) ==
    /\ calls[c].pc = "waiting"
    /\ now >= calls[c].due
    /\ \A x \in CallIds : calls[x].pc = "waiting" =>
            calls[x].due > calls[c].due \/ (calls[x].due = calls[c].due /\ x >= c)
    /\ LET e  == borderElementOf(doc, calls[c].target)
           st == <<focus, blurAt, lastFocus>>
       IN  IF e = 0
           THEN calls' = [calls EXCEPT ![c].pc = "failed", ![c].err = "TypeError",
                                       ![c].readAt = now, ![c].readFocus = focus]
           ELSE calls' = [calls EXCEPT ![c].pc = "returned", ![c].used = e,
                                       ![c].readAt = now, ![c].readFocus = focus,
                                       ![c].out = borderResult(doc, e, st, now),
                                       ![c].alone = borderResult(doc, e, calls[c].snap, now)]
    /\ UNCHANGED <<hexIn, hexOut, hexFed, doc, focus, blurAt, lastFocus, now>>

\* Time passes.
TickStep == 100

MaxTime == 400

Tick ==
    /\ now + TickStep <= MaxTime
    /\ now' = now + TickStep
    /\ UNCHANGED <<hexIn, hexOut, hexFed, doc, focus, blurAt, lastFocus, calls>>

\* The user or the harness focuses a form field while no extraction is in flight.
Focus(e) ==
    /\ \A c \in CallIds : calls[c].pc # "waiting"
    /\ doc[e].tag = "INPUT"
    /\ focus # e
    /\ focus' = e
    /\ blurAt' = IF focus # 0 THEN now ELSE blurAt
    /\ lastFocus' = IF focus # 0 THEN focus ELSE lastFocus
    /\ UNCHANGED <<hexIn, hexOut, hexFed, doc, now, calls>>

(***************************************************************************)
(* vortexExtractFormContainerBackground                                     *)
(***************************************************************************)
MaxLevels == 15

\* The characters of the class attributes the documents use.
Chars(cls) ==
    CASE cls = "modal"        -> <<"m", "o", "d", "a", "l">>
      [] cls = "modal-open"   -> <<"m", "o", "d", "a", "l", "-", "o", "p", "e", "n">>
      [] cls = "dialog-box"   -> <<"d", "i", "a", "l", "o", "g", "-", "b", "o", "x">>
      [] cls = "form-control" -> <<"f", "o", "r", "m", "-", "c", "o", "n", "t", "r", "o", "l">>
      [] cls = "card"         -> <<"c", "a", "r", "d">>
      [] cls = "wrapper"      -> <<"w", "r", "a", "p", "p", "e", "r">>
      [] OTHER                -> <<>>

\* String.prototype.includes
includes(hay, needle) ==
    \E i \in 0..(Len(hay) - Len(needle)) : SubSeq(hay, i + 1, i + Len(needle)) = needle

hasMarkerClass(cls) ==
    \/ includes(Chars(cls), <<"m", "o", "d", "a", "l">>)
    \/ includes(Chars(cls), <<"d", "i", "a", "l", "o", "g">>)
    \/ includes(Chars(cls), <<"f", "o", "r", "m">>)

\* tagName?.toLowerCase() is 'body' or 'html' (lines 183-186).
isRootTag(el) == el.tag = "BODY" \/ el.tag = "HTML"

\* Line 136: the background is neither 'rgba(0, 0, 0, 0)' nor 'transparent'.
isRecorded(bg) == bg # Rgba(0, 0, 0, <<"0">>) /\ bg # Transparent

\* walk with the loop bound off by one (i <= 15): one level more is visited.
RECURSIVE walk_OneMore(_, _, _)
walk_OneMore(d, current, i) ==
    IF i > MaxLevels \/ current = 0 THEN <<>>
    ELSE (IF isRecorded(d[current].bg)
          THEN <<[level |-> i, color |-> d[current].bg, element |-> current]>>
          ELSE <<>>)
         \o walk_OneMore(d, parentElement(d, current), i + 1)

\* Lines 133-146: the candidates of the walk from element `current` at level i.
RECURSIVE walk(_, _, _)
walk(d, current, i) ==
    IF i >= MaxLevels \/ current = 0 THEN <<>>
    ELSE (IF isRecorded(d[current].bg)
          THEN <<[level |-> i, color |-> d[current].bg, element |-> current]>>
          ELSE <<>>)
         \o walk(d, parentElement(d, current), i + 1)

\* Lines 139-144: the first walked element whose class has a marker; 0 when none.
RECURSIVE modalElement(_, _, _)
modalElement(d, current, i) ==
    IF i >= MaxLevels \/ current = 0 THEN 0
    ELSE IF d[current].cls # "" /\ hasMarkerClass(d[current].cls) THEN current
    ELSE modalElement(d, parentElement(d, current), i + 1)

\* Lines 159-160: the element is a modal/dialog/form element.
isContainer(el) == hasMarkerClass(el.cls) \/ el.tag = "DIALOG" \/ el.role = "dialog"

\* Lines 162-174 and 190-202: no 'rgba' in the string, or the number before the
\* closing parenthesis is exactly 1.
isSolid(color) ==
    IF color.kind # "color" THEN ~includes(color.chars, <<"r", "g", "b", "a">>)
    ELSE IF color.fn # "rgba" THEN TRUE
    ELSE ParseFloat(IF Len(color.a) > 0 THEN color.a ELSE color.b) = Thousand

\* firstContainerSolid without the break: the last container that is solid wins.
firstContainerSolid_Last(d, bgs) ==
    IF \E i \in 1..Len(bgs) : isContainer(d[bgs[i].element]) /\ isSolid(bgs[i].color)
    THEN CHOOSE i \in 1..Len(bgs) :
            /\ isContainer(d[bgs[i].element]) /\ isSolid(bgs[i].color)
            /\ \A j \in (i + 1)..Len(bgs) : ~(isContainer(d[bgs[j].element]) /\ isSolid(bgs[j].color))
    ELSE 0

\* Lines 153-176: the first candidate that is a container and solid; 0 when none.
firstContainerSolid(d, bgs) ==
    IF \E i \in 1..Len(bgs) : isContainer(d[bgs[i].element]) /\ isSolid(bgs[i].color)
    THEN CHOOSE i \in 1..Len(bgs) :
            /\ isContainer(d[bgs[i].element]) /\ isSolid(bgs[i].color)
            /\ \A j \in 1..(i - 1) : ~(isContainer(d[bgs[j].element]) /\ isSolid(bgs[j].color))
    ELSE 0

\* lastSolidNonRoot without the body/html skip of line 186.
lastSolidNonRoot_AnyTag(d, bgs) ==
    IF \E i \in 1..Len(bgs) : isSolid(bgs[i].color)
    THEN CHOOSE i \in 1..Len(bgs) :
            /\ isSolid(bgs[i].color)
            /\ \A j \in (i + 1)..Len(bgs) : ~isSolid(bgs[j].color)
    ELSE 0

\* Lines 180-204: the last candidate that is solid and neither body nor html; 0 when none.
lastSolidNonRoot(d, bgs) ==
    IF \E i \in 1..Len(bgs) : ~isRootTag(d[bgs[i].element]) /\ isSolid(bgs[i].color)
    THEN CHOOSE i \in 1..Len(bgs) :
            /\ ~isRootTag(d[bgs[i].element]) /\ isSolid(bgs[i].color)
            /\ \A j \in (i + 1)..Len(bgs) : ~(~isRootTag(d[bgs[j].element]) /\ isSolid(bgs[j].color))
    ELSE 0

\* The three rules of selection: lines 153-176, then 180-204, then 207-210.
\* chooseBackground with the first two rules swapped: the outermost solid wins.
chooseBackground_OuterFirst(d, bgs) ==
    IF lastSolidNonRoot(d, bgs) # 0 THEN lastSolidNonRoot(d, bgs)
    ELSE IF firstContainerSolid(d, bgs) # 0 THEN firstContainerSolid(d, bgs)
    ELSE Len(bgs)

\* Lines 148-210: the index of the chosen candidate; 0 when there is none.
chooseBackground(d, bgs) ==
    IF firstContainerSolid(d, bgs) # 0 THEN firstContainerSolid(d, bgs)
    ELSE IF lastSolidNonRoot(d, bgs) # 0 THEN lastSolidNonRoot(d, bgs)
    ELSE Len(bgs)

\* Lines 124-222: what a call on target `input` of document d ends with.
backgroundOutcome(d, input) ==
    LET bgs == walk(d, input, 0)
        k   == chooseBackground(d, bgs)
    IN  IF input = 0
        THEN [pc |-> "failed", err |-> "Element not found", used |-> 0, out |-> NoValue]
        ELSE IF k = 0
        THEN [pc |-> "failed", err |-> "Could not find form container background",
              used |-> 0, out |-> NoValue]
        ELSE [pc |-> "returned", err |-> "", used |-> bgs[k].element,
              out |-> [kind |-> "ok",
                       color |-> vortexRgbToHex(bgs[k].color),
                       element |-> descriptor(d[bgs[k].element])]]

\* Lines 123-222: the whole call; it has no await and touches no focus.
CallBackground(c, sel) ==
    /\ calls[c].pc = "idle"
    /\ \A x \in CallIds : x < c => calls[x].pc # "idle"
    /\ LET input == querySelector(doc, sel)
           o     == backgroundOutcome(doc, input)
       IN  calls' = [calls EXCEPT ![c] =
                [IdleCall EXCEPT !.fn = "background", !.sel = sel, !.target = input,
                                 !.readAt = now, !.readFocus = focus,
                                 !.pc = o.pc, !.err = o.err, !.used = o.used,
                                 !.out = o.out]]
    /\ UNCHANGED <<hexIn, hexOut, hexFed, doc, focus, blurAt, lastFocus, now>>

(***************************************************************************)
(* The documents of the border extractor: a form field in a wrapper.        *)
(***************************************************************************)
Black == Rgb(0, 0, 0)

Clear == Rgba(0, 0, 0, <<"0">>)

BodyEl == Element("BODY", "", "", Rgb(255, 255, 255), "0px", Black, Black, Black, 0)

HtmlEl == Element("HTML", "", "", Clear, "0px", Black, Black, Black, 0)

Selectors == { Selector("tag", "INPUT"), Selector("tag", "DIV"), Selector("tag", "HTML"),
               Selector("class", "missing") }

Transitions == {0, 200, 300}

FieldEls ==
    { Element("INPUT", "", "", Clear, bw, Rgb(235, 230, 223), foc, Rgb(119, 221, 173), tr) :
        bw \in {"2px", "0px", "0px 0px 1px"},
        foc \in {Rgb(3, 212, 124)},
        tr \in Transitions }

WrapperEls(tr) ==
    { Element("DIV", "wrapper", "", Clear, bw, Rgb(204, 204, 204), foc, Rgb(102, 102, 230), tr) :
        bw \in {"1px", "0px"},
        foc \in {Rgb(0, 0, 255)} }

BorderDocs == { <<f, w, BodyEl, HtmlEl>> : f \in FieldEls, w \in UNION { WrapperEls(tr) : tr \in Transitions } }

Init ==
    /\ hexIn = Transparent
    /\ hexOut = NoValue
    /\ hexFed = FALSE
    /\ doc \in { d \in BorderDocs : d[1].trans = d[2].trans }
    /\ focus \in {0, 1}
    /\ blurAt = 0
    /\ lastFocus = 0
    /\ now = 0
    /\ calls = [c \in CallIds |-> IdleCall]

Next ==
    \/ \E c \in CallIds, sel \in Selectors : CallBorder(c, sel)
    \/ \E c \in CallIds : ResumeBorder(c)
    \/ \E c \in CallIds, sel \in Selectors : CallBackground(c, sel)
    \/ \E e \in 1..Len(doc) : Focus(e)
    \/ Tick

Spec == Init /\ [][Next]_vars

(***************************************************************************)
(* The documents of the background resolver: a form field under up to       *)
(* MaxAncestors styled ancestors, a run of unstyled wrappers between the    *)
(* field and them, then BODY and HTML.                                      *)
(***************************************************************************)
Plain(tag, cls, role, bg) == Element(tag, cls, role, bg, "0px", Black, Black, Black, 0)

BgFieldEls ==
    { Plain("INPUT", "", "", Clear),
      Plain("INPUT", "", "", Rgb(255, 255, 255)),
      Plain("INPUT", "form-control", "", Rgb(250, 250, 250)) }

BgAncestorEls ==
    { Plain("DIV", "modal", "", Rgb(240, 240, 240)),
      Plain("DIV", "modal", "", Rgba(0, 0, 0, <<"0", ".", "5">>)),
      Plain("DIV", "modal", "", Transparent),
      Plain("DIV", "", "dialog", Rgb(17, 17, 17)),
      Plain("DIALOG", "", "", Rgba(34, 34, 34, <<"1">>)),
      Plain("DIV", "card", "", Rgb(200, 200, 200)),
      Plain("DIV", "", "", Rgba(255, 255, 255, <<"0">>)) }

BgBodyEls ==
    { Plain("BODY", "", "", Clear),
      Plain("BODY", "", "", Rgb(255, 255, 255)),
      Plain("BODY", "modal-open", "", Rgb(238, 238, 238)) }

BgHtmlEls ==
    { Plain("HTML", "", "", Clear),
      Plain("HTML", "", "", Rgb(1, 2, 3)) }

MaxAncestors == 2

PadLengths == {0, 13, 14}

RECURSIVE SeqsUpTo(_, _)
SeqsUpTo(S, n) ==
    IF n = 0 THEN {<<>>}
    ELSE LET shorter == SeqsUpTo(S, n - 1)
         IN  shorter \cup { Append(q, x) : q \in shorter, x \in S }

Padding(n) == [i \in 1..n |-> Plain("DIV", "", "", Clear)]

BgDocs ==
    { <<f>> \o Padding(n) \o anc \o <<b, h>> :
        f \in BgFieldEls, n \in PadLengths, anc \in SeqsUpTo(BgAncestorEls, MaxAncestors),
        b \in BgBodyEls, h \in BgHtmlEls }

InitBg ==
    /\ hexIn = Transparent
    /\ hexOut = NoValue
    /\ hexFed = FALSE
    /\ doc \in BgDocs
    /\ focus = 0
    /\ blurAt = 0
    /\ lastFocus = 0
    /\ now = 0
    /\ calls = [c \in CallIds |-> IdleCall]

NextBg == \E sel \in Selectors : CallBackground(1, sel)

SpecBg == InitBg /\ [][NextBg]_vars

(***************************************************************************)
(* Properties of the two extractors on a form field in a wrapper (Spec).    *)
(***************************************************************************)
\* C1: when the selector matches no element, either extractor fails with the
\* element-not-found error and the focus state is what it was before the call.
C1_NotFoundKeepsFocus ==
    [][\A c \in CallIds :
         (calls[c].pc = "idle" /\ calls'[c].pc # "idle"
            /\ querySelector(doc, calls'[c].sel) = 0)
         => /\ calls'[c].pc = "failed"
            /\ calls'[c].err = "Element not found"
            /\ focus' = focus /\ blurAt' = blurAt /\ lastFocus' = lastFocus]_vars

\* Both extractors failed on a missing element while the form field kept its focus.
C1_Witness ==
    /\ calls[1].fn = "border" /\ calls[1].pc = "failed" /\ calls[1].err = "Element not found"
    /\ calls[2].fn = "background" /\ calls[2].pc = "failed"
    /\ calls[2].err = "Element not found"
    /\ focus = 1

\* The only border call so far is call c.
OnlyCall(c) == \A x \in CallIds \ {c} : calls[x].pc = "idle"

\* C2: a single border call whose target held focus when it was made, and whose border
\* colour differs between focus and rest, returns the resting colour, having read it
\* with no element focused and the transition over.
C2_RestingColor ==
    \A c \in CallIds :
        (calls[c].fn = "border" /\ calls[c].pc = "returned" /\ calls[c].wasFocused
           /\ OnlyCall(c) /\ doc[calls[c].used].foc # doc[calls[c].used].rest)
        => /\ calls[c].out.color = vortexRgbToHex(doc[calls[c].used].rest)
           /\ calls[c].readFocus = 0
           /\ calls[c].readAt >= calls[c].due

ZeroWidth(bw) == bw = "0px"

BorderColorsOf(el) == { vortexRgbToHex(x) : x \in {el.rest, el.foc, el.mid} }

\* C3: for a target with a parent, the colour, width and descriptor returned are the
\* parent's when the target's border width is zero and the target's own otherwise.
C3_BorderBearing ==
    \A c \in CallIds :
        (calls[c].fn = "border" /\ calls[c].pc = "returned"
           /\ parentElement(doc, calls[c].target) # 0)
        => LET t == calls[c].target
               e == IF ZeroWidth(doc[t].bw) THEN parentElement(doc, t) ELSE t
           IN  /\ calls[c].used = e
               /\ calls[c].out.color \in BorderColorsOf(doc[e])
               /\ calls[c].out.width = doc[e].bw
               /\ calls[c].out.element = descriptor(doc[e])

\* A field without a border of its own returned its wrapper's visible border.
C3_Witness ==
    \E c \in CallIds :
        /\ calls[c].fn = "border" /\ calls[c].pc = "returned"
        /\ calls[c].target = 1 /\ doc[1].bw = "0px"
        /\ calls[c].used = 2 /\ calls[c].out.width = "1px"
        /\ calls[c].out.element = "wrapper"

\* C9: a border call on a located target never fails: it only fails when the
\* selector matched nothing.
C9_FailsOnlyNotFound ==
    \A c \in CallIds :
        (calls[c].fn = "border" /\ calls[c].pc = "failed")
        => (calls[c].target = 0 /\ calls[c].err = "Element not found")

\* C10: with two border calls interleaved at their settle delays, no step of either
\* gives focus to an element, each reads the styles while nothing is focused, and each
\* returns what it would have returned had the other not run.
C10_Interleaved ==
    \A c \in CallIds :
        calls[c].fn = "border" =>
            /\ calls[c].pc = "waiting" => focus = 0
            /\ calls[c].pc = "returned" =>
                   (calls[c].readFocus = 0 /\ calls[c].out = calls[c].alone)

\* Two border calls on the focused field, the second made while the first was
\* waiting and the field's transition was under way, have both returned.
C10_Witness ==
    /\ calls[1].fn = "border" /\ calls[1].pc = "returned" /\ calls[1].wasFocused
    /\ calls[2].fn = "border" /\ calls[2].pc = "returned"
    /\ calls[1].target = 1 /\ calls[2].target = 1
    /\ calls[2].due - SettleDelay > calls[1].due - SettleDelay
    /\ calls[2].due - SettleDelay < calls[1].readAt
    /\ doc[1].trans > 0

(***************************************************************************)
(* Properties of the background resolver (SpecBg).                          *)
(***************************************************************************)
\* A colour without alpha channel, or with alpha exactly 1.
SolidColor(c) == c.kind = "color" /\ (Len(c.a) = 0 \/ ParseFloat(c.a) = Thousand)

\* A colour that paints nothing: the keyword, or an alpha of 0.
FullyTransparent(c) ==
    c = Transparent \/ (c.kind = "color" /\ Len(c.a) > 0 /\ ParseFloat(c.a) = 0)

\* One of the two canonical transparent strings.
CanonicalTransparent(c) == c = Clear \/ c = Transparent

\* The elements at depths 0 .. MaxLevels - 1 above target t.
Walked(t) == { x \in t..Len(doc) : x - t < MaxLevels }

Min(S) == CHOOSE x \in S : \A y \in S : x <= y

Max(S) == CHOOSE x \in S : \A y \in S : x >= y

\* The lowest walked element that is container-marked; 0 when none is.
ContainerAncestor(t) ==
    IF \E x \in Walked(t) : isContainer(doc[x])
    THEN Min({ x \in Walked(t) : isContainer(doc[x]) }) ELSE 0

\* The candidates of rule (a) read as "inside or at a container": solid, and
\* container-marked or at or below the container-marked ancestor.
InsideOrAtSolid(t) ==
    { x \in Walked(t) : /\ isRecorded(doc[x].bg) /\ SolidColor(doc[x].bg)
                        /\ (isContainer(doc[x]) \/ x <= ContainerAncestor(t)) }

\* The candidates of rule (a) as the code applies it: solid and container-marked.
ContainerSolid(t) ==
    { x \in Walked(t) : isRecorded(doc[x].bg) /\ SolidColor(doc[x].bg) /\ isContainer(doc[x]) }

\* The candidates of rule (b): solid and neither body nor html.
SolidNonRoot(t) ==
    { x \in Walked(t) : isRecorded(doc[x].bg) /\ SolidColor(doc[x].bg) /\ ~isRootTag(doc[x]) }

BgCall(c) == calls[c].fn = "background" /\ calls[c].target # 0

Returns(c, x) ==
    /\ calls[c].pc = "returned"
    /\ calls[c].out.color = vortexRgbToHex(doc[x].bg)

\* C4 as claimed: when some candidate is solid and inside or at a container-marked
\* element, the result is the colour of the lowest such candidate.
C4_InsideOrAt ==
    \A c \in CallIds :
        (BgCall(c) /\ InsideOrAtSolid(calls[c].target) # {})
        => Returns(c, Min(InsideOrAtSolid(calls[c].target)))

\* C4 amended: when some candidate is solid and its own element is container-marked
\* (marker class, DIALOG tag or dialog role), the result is the colour of the lowest
\* such candidate.
C4_ContainerItself ==
    \A c \in CallIds :
        (BgCall(c) /\ ContainerSolid(calls[c].target) # {})
        => /\ Returns(c, Min(ContainerSolid(calls[c].target)))
           /\ calls[c].used = Min(ContainerSolid(calls[c].target))

\* The container's colour was returned although a solid candidate lies below it.
C4_Witness ==
    \E c \in CallIds :
        /\ BgCall(c) /\ calls[c].pc = "returned"
        /\ isContainer(doc[calls[c].used])
        /\ \E x \in SolidNonRoot(calls[c].target) :
              /\ x < calls[c].used /\ ~isContainer(doc[x])
              /\ vortexRgbToHex(doc[x].bg) # calls[c].out.color

\* The container-marked elements with a solid background above only fully
\* transparent ones.
PriorityContainers(t) ==
    { m \in t..Len(doc) : /\ isContainer(doc[m]) /\ SolidColor(doc[m].bg)
                          /\ \A x \in t..(m - 1) : FullyTransparent(doc[x].bg) }

\* C5 as claimed: on every chain the colour of such a container is the result.
C5_AnyDepth ==
    \A c \in CallIds :
        BgCall(c) => \A m \in PriorityContainers(calls[c].target) : Returns(c, m)

\* C5 amended: the colour of such a container is the result when the container is at
\* depth 14 or less.
C5_ContainerPriority ==
    \A c \in CallIds :
        BgCall(c) => \A m \in PriorityContainers(calls[c].target) :
                        m - calls[c].target < MaxLevels
                        => (Returns(c, m) /\ calls[c].used = m)

\* The container above a transparent field was chosen although a solid ancestor that
\* is no root and a solid root lie above it.
C5_Witness ==
    \E c \in CallIds :
        /\ BgCall(c) /\ calls[c].pc = "returned"
        /\ calls[c].used \in PriorityContainers(calls[c].target)
        /\ calls[c].used > calls[c].target
        /\ \E x \in SolidNonRoot(calls[c].target) : x > calls[c].used
        /\ \E x \in Walked(calls[c].target) :
              x > calls[c].used /\ isRootTag(doc[x]) /\ SolidColor(doc[x].bg)

\* C6: when no candidate is solid and container-marked and some candidate is solid and
\* neither body nor html, the result is the colour of the highest such candidate.
C6_OutermostSolid ==
    \A c \in CallIds :
        (BgCall(c) /\ ContainerSolid(calls[c].target) = {}
           /\ SolidNonRoot(calls[c].target) # {})
        => /\ Returns(c, Max(SolidNonRoot(calls[c].target)))
           /\ calls[c].used = Max(SolidNonRoot(calls[c].target))
           /\ ~isRootTag(doc[calls[c].used])
           /\ SolidColor(doc[calls[c].used].bg)

\* Rule (b) chose between two solid candidates, below a solid body and a translucent one.
C6_Witness ==
    \E c \in CallIds :
        /\ BgCall(c) /\ calls[c].pc = "returned"
        /\ ContainerSolid(calls[c].target) = {}
        /\ Cardinality(SolidNonRoot(calls[c].target)) >= 2
        /\ calls[c].used = Max(SolidNonRoot(calls[c].target))
        /\ \E x \in Walked(calls[c].target) :
              x > calls[c].used /\ isRootTag(doc[x]) /\ SolidColor(doc[x].bg)
        /\ \E x \in Walked(calls[c].target) :
              isRecorded(doc[x].bg) /\ ~SolidColor(doc[x].bg)

ContainerNotFound(c) ==
    calls[c].pc = "failed" /\ calls[c].err = "Could not find form container background"

\* The document cut above depth MaxLevels - 1 of target t.
Truncated(t) == SubSeq(doc, 1, Max(Walked(t)))

\* The call ended as it would on the document cut above depth 14, and a result is
\* the colour of a recorded candidate.
WithinWalk(c) ==
    LET o == backgroundOutcome(Truncated(calls[c].target), calls[c].target)
    IN  /\ calls[c].pc = o.pc /\ calls[c].err = o.err /\ calls[c].out = o.out
        /\ calls[c].pc = "returned" =>
              /\ calls[c].used \in Walked(calls[c].target)
              /\ isRecorded(doc[calls[c].used].bg)
              /\ Returns(c, calls[c].used)

\* C7 as claimed: the call fails with container-not-found exactly when every element
\* at depths 0..14 has a fully transparent background.
C7_FullyTransparentIff ==
    \A c \in CallIds :
        BgCall(c) =>
            /\ ContainerNotFound(c)
                 <=> \A x \in Walked(calls[c].target) : FullyTransparent(doc[x].bg)
            /\ WithinWalk(c)

\* C7 amended: the call fails with container-not-found exactly when every element at
\* depths 0..14 has the background 'rgba(0, 0, 0, 0)' or 'transparent'; otherwise it
\* returns the colour of a recorded candidate; deeper elements change nothing.
C7_NoCandidateIff ==
    \A c \in CallIds :
        BgCall(c) =>
            /\ ContainerNotFound(c)
                 <=> \A x \in Walked(calls[c].target) : CanonicalTransparent(doc[x].bg)
            /\ ~ContainerNotFound(c) => calls[c].pc = "returned"
            /\ WithinWalk(c)

\* The call failed although an element at depth 15 or more has a solid background.
C7_Witness ==
    \E c \in CallIds :
        /\ BgCall(c) /\ ContainerNotFound(c)
        /\ \E x \in calls[c].target..Len(doc) :
              x - calls[c].target >= MaxLevels /\ SolidColor(doc[x].bg)

(***************************************************************************)
(* The converter on its own: a caller hands a string to vortexRgbToHex and  *)
(* may hand the result back to it.                                          *)
(***************************************************************************)
ChannelSamples == {0, 7, 16, 255}

AlphaSamples == { <<>>, <<"0">>, <<"1">>, <<"1", ".", "0">>, <<"0", ".", "5">>,
                  <<"0", ".", "1">>, <<"0", ".", "1", "9">>, <<"0", ".", "0", "0", "1">>,
                  <<"0", ".", "9", "9", "9">>, <<".", "5">> }

HexInputs ==
    { Color(fn, Numeral(r), Numeral(g), Numeral(b), a) :
        fn \in {"rgb", "rgba"}, r \in ChannelSamples, g \in ChannelSamples,
        b \in ChannelSamples, a \in AlphaSamples }
    \cup { Transparent, Color("oklab", <<"0">>, <<"0">>, <<"0">>, <<>>) }

\* window.vortexRgbToHex(hexIn)
Convert ==
    /\ hexOut = NoValue
    /\ hexOut' = vortexRgbToHex(hexIn)
    /\ UNCHANGED <<hexIn, hexFed, doc, focus, blurAt, lastFocus, now, calls>>

\* The caller feeds the result back as the next input.
Reapply ==
    /\ hexOut # NoValue
    /\ ~hexFed
    /\ hexIn' = hexOut
    /\ hexFed' = TRUE
    /\ hexOut' = NoValue
    /\ UNCHANGED <<doc, focus, blurAt, lastFocus, now, calls>>

InitHex ==
    /\ hexIn \in HexInputs
    /\ hexFed = FALSE
    /\ hexOut = NoValue
    /\ doc = <<>>
    /\ focus = 0
    /\ blurAt = 0
    /\ lastFocus = 0
    /\ now = 0
    /\ calls = <<>>

NextHex == Convert \/ Reapply

SpecHex == InitHex /\ [][NextHex]_vars

UpperHexDigits == <<"0", "1", "2", "3", "4", "5", "6", "7", "8", "9",
                    "A", "B", "C", "D", "E", "F">>

IsUpperHex(ch) == \E d \in 1..16 : UpperHexDigits[d] = ch

UpperHexValue(ch) == (CHOOSE d \in 1..16 : UpperHexDigits[d] = ch) - 1

\* The input is in the domain of C8: it matches, its channels are bytes and its alpha,
\* when it has one, is a number of [0, 1].
InByteDomain(s) ==
    /\ RegexMatch(s)
    /\ \A p \in {s.r, s.g, s.b} : ParseInt(p) <= 255
    /\ Len(s.a) > 0 => (ParseFloat(s.a) # NaN /\ ParseFloat(s.a) <= Thousand)

\* n is a * 255 rounded to the nearest integer, halves up (a in thousandths).
IsRounded255(n, a) == 2 * Thousand * n - Thousand <= 2 * 255 * a
                      /\ 2 * 255 * a < 2 * Thousand * n + Thousand

\* C8: for a matching input with byte channels and alpha in [0,1] the result is '#' and
\* exactly 6 uppercase hex digits when alpha is absent or exactly 1, and exactly 8
\* otherwise (alpha 0 included), the last two being round(a*255); a non-matching input
\* is returned unchanged, and the result handed back to rgbToHex comes back unchanged.
C8_HexShape ==
    hexOut # NoValue =>
        /\ InByteDomain(hexIn) =>
             /\ hexOut.kind = "text"
             /\ hexOut.chars[1] = "#"
             /\ \A i \in 2..Len(hexOut.chars) : IsUpperHex(hexOut.chars[i])
             /\ Len(hexOut.chars) - 1 =
                  IF Len(hexIn.a) = 0 \/ ParseFloat(hexIn.a) = Thousand THEN 6 ELSE 8
             /\ Len(hexOut.chars) = 9 =>
                  IsRounded255(16 * UpperHexValue(hexOut.chars[8])
                                 + UpperHexValue(hexOut.chars[9]), ParseFloat(hexIn.a))
        /\ ~RegexMatch(hexIn) => hexOut = hexIn
        /\ hexFed => hexOut = hexIn

\* An alpha of 0 was converted to an 8-digit code, which was then fed back and returned.
C8_Witness ==
    /\ hexFed
    /\ hexOut # NoValue
    /\ hexOut.kind = "text"
    /\ Len(hexOut.chars) = 9
    /\ hexOut.chars[8] = "0" /\ hexOut.chars[9] = "0"

====
